---- MODULE Spec2Model ----
(***************************************************************************)
(* A model of clahe-rs (src/src/lib.rs): contrast-limited adaptive         *)
(* histogram equalisation of a W x H 8-bit grayscale image over a fixed    *)
(* 8 x 8 tile grid.                                                         *)
(*                                                                         *)
(* Two specifications share the pure functions of the library:             *)
(*   Spec      the whole of clahe(): the tile loop (one step per tile,     *)
(*             lines 15-39), the pixel loop (one step per pixel, lines     *)
(*             41-105) and the return (line 107);                          *)
(*   SpecHist  clip_histogram followed by perform_gray_level_mapping on    *)
(*             histograms drawn from a bounded family.                     *)
(*                                                                         *)
(* Numbers.  u32 values are modelled as integers; a u32 subtraction whose  *)
(* result would be negative and an integer division by zero are reported   *)
(* in the step's record and end the run as a panic (the behaviour of a     *)
(* build with overflow checks).  An f32 weight is the exact fraction       *)
(* n/d of its operands, d = 0 standing for the IEEE results of a division  *)
(* by zero (NaN when n = 0, +inf / -inf by the sign of n).  The f64        *)
(* expression (seen / num_pixels) * 255.0 truncated to u8 is modelled as   *)
(* floor(seen * 255 / num_pixels); NaN (num_pixels = 0) casts to 0.        *)
(***************************************************************************)
EXTENDS Integers, Sequences, FiniteSets

\* ---------------------------------------------------------------- constants

\* lib.rs:9, lib.rs:10: the fixed tile grid
tiles_hz == 8
tiles_vt == 8
\* lib.rs:36: the clip limit clahe passes to clip_histogram
ClipLimit == 40
\* lib.rs:13, lib.rs:124: the number of histogram bins / LUT entries
NumBins == 256
\* the largest u8, the upper end of imageproc's Clamp for u8
MaxU8 == 255

\* ------------------------------------------------------------------- bounds

\* image widths and heights range over (tiles - 1) .. MaxDim
MaxDim == 17
\* width and height of an input image differ by at most MaxSkew
MaxSkew == 1
\* spike counts of SpecHist reach ClipLimit + MaxK * (NumBins \div 2) + 1
MaxK == 3
\* the uniform background count of SpecHist's histograms ranges over 0 .. MaxBase
MaxBase == 1

Widths == (tiles_hz - 1) .. MaxDim
Heights == (tiles_vt - 1) .. MaxDim
Dimensions ==
    { d \in Widths \X Heights :
        d[1] - d[2] <= MaxSkew /\ d[2] - d[1] <= MaxSkew }

\* The input images: pixel (x, y) holds (a*x + b*y + c) mod 256.
Patterns ==
    << [a |-> 0, b |-> 0, c |-> 100],
       [a |-> 255, b |-> 255, c |-> 200],
       [a |-> 37, b |-> 91, c |-> 5] >>

Bins == 0 .. (NumBins - 1)

VARIABLES
    dims,           \* input.dimensions(): <<W, H>>
    input,          \* the input image, [<<x, y>> -> 0..255]
    output,         \* the output image (line 7: all zero at first)
    lookup_tables,  \* lookup_tables[row][col][value] (line 13)
    tiles_built,    \* per built tile: its rectangle and its histogram's sum
    pc,             \* "tiles", "pixels", "done", "panicked"; "off" in SpecHist
    tile_idx,       \* the tile loop's position, row_idx * tiles_hz + col_idx
    pix_idx,        \* the pixel loop's position, y * W + x
    last,           \* the locals of the last pixel iteration
    result,         \* what clahe returned: "none", "Ok", "Err", "Panic"
    hpc,            \* SpecHist: "start", "clipped", "mapped"; "off" in Spec
    h_in,           \* SpecHist: the histogram given to clip_histogram
    h_limit,        \* SpecHist: the limit given to clip_histogram
    h_clipped,      \* SpecHist: clip_histogram's result
    h_table         \* SpecHist: the lookup table built from h_clipped

vars == << dims, input, output, lookup_tables, tiles_built, pc, tile_idx,
           pix_idx, last, result, hpc, h_in, h_limit, h_clipped, h_table >>

mainVars == << dims, input, output, lookup_tables, tiles_built, pc, tile_idx,
               pix_idx, last, result >>
histVars == << hpc, h_in, h_limit, h_clipped, h_table >>

\* ------------------------------------------------------------ pure functions

min(a, b) == IF a <= b THEN a ELSE b

RECURSIVE SumBins(_, _, _)
\* h[lo] + ... + h[hi]  (Iterator::sum over the bins), halving the range
SumBins(h, lo, hi) ==
    IF lo > hi THEN 0
    ELSE IF lo = hi THEN h[lo]
    ELSE LET mid == (lo + hi) \div 2
         IN  SumBins(h, lo, mid) + SumBins(h, mid + 1, hi)

SumAll(h) == SumBins(h, 0, NumBins - 1)

Over(c, limit) == IF c > limit THEN c - limit ELSE 0

\* lib.rs:117-122: the first loop's accumulated excess
num_pixels_over_limit(h, limit) ==
    SumAll([i \in Bins |-> Over(h[i], limit)])

\* A slip of the redistribution: the excess is never added back.
clip_histogram_noredist(h, limit) ==
    [i \in Bins |-> IF h[i] > limit THEN limit ELSE h[i]]

\* A slip of the redistribution: the quotient is rounded up.
clip_histogram_roundup(h, limit) ==
    LET excess_pixels_per_bin ==
            (num_pixels_over_limit(h, limit) + NumBins - 1) \div NumBins
    IN  [i \in Bins |->
            (IF h[i] > limit THEN limit ELSE h[i]) + excess_pixels_per_bin]

\* lib.rs:110-131
clip_histogram(h, limit) ==
    LET excess_pixels_per_bin == num_pixels_over_limit(h, limit) \div NumBins
    IN  [i \in Bins |->
            (IF h[i] > limit THEN limit ELSE h[i]) + excess_pixels_per_bin]

\* lib.rs:140-141: (seen as f64 / num_pixels as f64 * 255.0) as u8
LutEntry(seen, num_pixels) ==
    IF num_pixels = 0 THEN 0 ELSE (seen * MaxU8) \div num_pixels

RECURSIVE SeenAfter(_, _, _)
\* lib.rs:136-138: the values num_pixels_seen takes after bins lo .. hi,
\* counted from 0 at bin lo (the running sum, built by halving the range)
SeenAfter(h, lo, hi) ==
    IF lo = hi THEN << h[lo] >>
    ELSE LET mid == (lo + hi) \div 2
             left == SeenAfter(h, lo, mid)
             right == SeenAfter(h, mid + 1, hi)
             carried == left[Len(left)]
         IN  left \o [i \in 1 .. Len(right) |-> right[i] + carried]

\* A slip of the mapping: each entry maps its own bin's count, not the
\* running count.
perform_gray_level_mapping_nocum(h) ==
    LET num_pixels == SumAll(h)
    IN  [i \in Bins |-> LutEntry(h[i], num_pixels)]

\* lib.rs:133-143
perform_gray_level_mapping(h) ==
    LET num_pixels == SumAll(h)
        num_pixels_seen == SeenAfter(h, 0, NumBins - 1)
    IN  [index \in Bins |-> LutEntry(num_pixels_seen[index + 1], num_pixels)]

\* --------------------------------------------------------- region classifier

\* lib.rs:145-149
TileCoordinate(cx, cy) == [x |-> cx, y |-> cy]

\* lib.rs:286-288
get_pixel_coordinate_from_tile_coordinate(tile_coord, pixels_per_tile) ==
    (pixels_per_tile \div 2) + (tile_coord * pixels_per_tile)

\* A slip of the corner test: the top-left branch is missing.
is_corner_region_notopleft(x, y, hz, vt, dim_x, dim_y) ==
    LET tile_width == dim_x \div hz
        tile_height == dim_y \div vt
    IN  IF x > ((tile_width * hz) - tile_width \div 2) /\ y <= tile_height \div 2
        THEN [ok |-> TRUE, tile |-> TileCoordinate(hz - 1, 0)]
        ELSE IF x > ((tile_width * hz) - tile_width \div 2)
                /\ y > ((tile_height * vt) - tile_height \div 2)
        THEN [ok |-> TRUE, tile |-> TileCoordinate(hz - 1, vt - 1)]
        ELSE IF (x <= tile_width \div 2)
                /\ y > ((tile_height * vt) - tile_height \div 2)
        THEN [ok |-> TRUE, tile |-> TileCoordinate(0, vt - 1)]
        ELSE [ok |-> FALSE, tile |-> TileCoordinate(0, 0)]

\* A slip of the corner test: the far edge is compared with >= instead of >.
is_corner_region_faredge(x, y, hz, vt, dim_x, dim_y) ==
    LET tile_width == dim_x \div hz
        tile_height == dim_y \div vt
    IN  IF (x <= tile_width \div 2) /\ (y <= tile_height \div 2)
        THEN [ok |-> TRUE, tile |-> TileCoordinate(0, 0)]
        ELSE IF x >= ((tile_width * hz) - tile_width \div 2) /\ y <= tile_height \div 2
        THEN [ok |-> TRUE, tile |-> TileCoordinate(hz - 1, 0)]
        ELSE IF x >= ((tile_width * hz) - tile_width \div 2)
                /\ y >= ((tile_height * vt) - tile_height \div 2)
        THEN [ok |-> TRUE, tile |-> TileCoordinate(hz - 1, vt - 1)]
        ELSE IF (x <= tile_width \div 2)
                /\ y >= ((tile_height * vt) - tile_height \div 2)
        THEN [ok |-> TRUE, tile |-> TileCoordinate(0, vt - 1)]
        ELSE [ok |-> FALSE, tile |-> TileCoordinate(0, 0)]

\* lib.rs:151-188.  ok = FALSE is Err(()).
is_corner_region(x, y, hz, vt, dim_x, dim_y) ==
    LET tile_width == dim_x \div hz
        tile_height == dim_y \div vt
    IN  IF (x <= tile_width \div 2) /\ (y <= tile_height \div 2)
        THEN [ok |-> TRUE, tile |-> TileCoordinate(0, 0)]
        ELSE IF x > ((tile_width * hz) - tile_width \div 2) /\ y <= tile_height \div 2
        THEN [ok |-> TRUE, tile |-> TileCoordinate(hz - 1, 0)]
        ELSE IF x > ((tile_width * hz) - tile_width \div 2)
                /\ y > ((tile_height * vt) - tile_height \div 2)
        THEN [ok |-> TRUE, tile |-> TileCoordinate(hz - 1, vt - 1)]
        ELSE IF (x <= tile_width \div 2)
                /\ y > ((tile_height * vt) - tile_height \div 2)
        THEN [ok |-> TRUE, tile |-> TileCoordinate(0, vt - 1)]
        ELSE [ok |-> FALSE, tile |-> TileCoordinate(0, 0)]

\* lib.rs:203 (and 211, 225, 233, 261, 263):
\*   min((coord - (extent / 2)) / extent, tiles - 2)
\* with the u32 subtraction and the integer division checked.
LowerTile(coord, extent, tiles) ==
    LET half == extent \div 2
    IN  IF coord < half
        THEN [v |-> 0, underflow |-> TRUE, divzero |-> FALSE]
        ELSE IF extent = 0
        THEN [v |-> 0, underflow |-> FALSE, divzero |-> TRUE]
        ELSE [v |-> min((coord - half) \div extent, tiles - 2),
              underflow |-> FALSE, divzero |-> FALSE]

\* lib.rs:190-248.  ok = FALSE is Err(()).
is_border_region(x, y, hz, vt, dim_x, dim_y) ==
    LET tile_width == dim_x \div hz
        tile_height == dim_y \div vt
        lx == LowerTile(x, tile_width, hz)
        ty == LowerTile(y, tile_height, vt)
    IN  IF y <= tile_height \div 2
        THEN [ok |-> TRUE, t0 |-> TileCoordinate(lx.v, 0),
              t1 |-> TileCoordinate(lx.v + 1, 0),
              underflow |-> lx.underflow, divzero |-> lx.divzero]
        ELSE IF y > ((vt * tile_height) - (tile_height \div 2))
        THEN [ok |-> TRUE, t0 |-> TileCoordinate(lx.v, vt - 1),
              t1 |-> TileCoordinate(lx.v + 1, vt - 1),
              underflow |-> lx.underflow, divzero |-> lx.divzero]
        ELSE IF x <= tile_width \div 2
        THEN [ok |-> TRUE, t0 |-> TileCoordinate(0, ty.v),
              t1 |-> TileCoordinate(0, ty.v + 1),
              underflow |-> ty.underflow, divzero |-> ty.divzero]
        ELSE IF x > ((hz * tile_width) - (tile_width \div 2))
        THEN [ok |-> TRUE, t0 |-> TileCoordinate(hz - 1, ty.v),
              t1 |-> TileCoordinate(hz - 1, ty.v + 1),
              underflow |-> ty.underflow, divzero |-> ty.divzero]
        ELSE [ok |-> FALSE, t0 |-> TileCoordinate(0, 0),
              t1 |-> TileCoordinate(0, 0),
              underflow |-> FALSE, divzero |-> FALSE]

\* lib.rs:250-284: top-left, top-right, bottom-right, bottom-left
get_neighbor_tiles(x, y, hz, vt, dim_x, dim_y) ==
    LET tile_width == dim_x \div hz
        tile_height == dim_y \div vt
        lx == LowerTile(x, tile_width, hz)
        ty == LowerTile(y, tile_height, vt)
    IN  [tiles |-> << TileCoordinate(lx.v, ty.v),
                      TileCoordinate(lx.v + 1, ty.v),
                      TileCoordinate(lx.v + 1, ty.v + 1),
                      TileCoordinate(lx.v, ty.v + 1) >>,
         underflow |-> lx.underflow \/ ty.underflow,
         divzero |-> lx.divzero \/ ty.divzero]

\* ------------------------------------------------------------- interpolation

\* An f32 weight n/d (d >= 0; d = 0: NaN, +inf or -inf by the sign of n).
Frac(num, den) == [n |-> num, d |-> den]

\* `weight > 0.0`: false for NaN
Positive(w) == w.n > 0

\* `1. - weight`: 1 - NaN = NaN, 1 - (+inf) = -inf
OneMinus(w) == Frac(w.d - w.n, w.d)

\* `-weight`
Neg(w) == Frac(0 - w.n, w.d)

\* imageproc::pixelops::interpolate(left, right, left_weight) on Luma<u8>:
\*   Clamp::clamp(left as f32 * left_weight + right as f32 * (1 - left_weight))
\* where clamp gives 255 unless x < 255, else 0 unless x > 0, else x as u8.
\* With left, right >= 0 an infinite or NaN weight makes the sum NaN, which
\* fails x < 255 and clamps to 255.
interpolate(left, right, left_weight) ==
    IF left_weight.d = 0
    THEN MaxU8
    ELSE LET num == left * left_weight.n
                    + right * (left_weight.d - left_weight.n)
         IN  IF num < MaxU8 * left_weight.d
             THEN (IF num > 0 THEN num \div left_weight.d ELSE 0)
             ELSE MaxU8

\* ------------------------------------------------------------ the tile loop

\* A slip of the partition: the last column and row do not take the remainder.
TileRect_noremainder(col_idx, row_idx, W, H) ==
    LET tile_width == W \div tiles_hz
        tile_height == H \div tiles_vt
    IN  [x |-> tile_width * col_idx, y |-> tile_height * row_idx,
         w |-> tile_width, h |-> tile_height]

\* lib.rs:11-12, 17-34: the rectangle handed to SubImage::new
TileRect(col_idx, row_idx, W, H) ==
    LET tile_width == W \div tiles_hz
        tile_height == H \div tiles_vt
        region_width == IF col_idx = tiles_hz - 1
                        THEN tile_width + (W % tiles_hz)
                        ELSE tile_width
        region_height == IF row_idx = tiles_vt - 1
                         THEN tile_height + (H % tiles_vt)
                         ELSE tile_height
    IN  [x |-> tile_width * col_idx, y |-> tile_height * row_idx,
         w |-> region_width, h |-> region_height]

\* The pixels of a rectangle (SubImage::to_image copies exactly these).
RectPixels(r) ==
    { <<px, py>> : px \in r.x .. (r.x + r.w - 1), py \in r.y .. (r.y + r.h - 1) }

\* SubImage::to_image reads every pixel of the rectangle from the image.
RectInImage(r, W, H) == r.x + r.w <= W /\ r.y + r.h <= H

\* lib.rs:36: imageproc::stats::histogram of the tile's pixels
histogram(img, r) ==
    LET px == RectPixels(r)
    IN  [v \in Bins |-> Cardinality({ p \in px : img[p] = v })]

\* ----------------------------------------------------------- the pixel loop

\* Vec indexing lookup_tables[tile.y][tile.x] is bounds-checked.
InGrid(t) == t.x \in 0 .. (tiles_hz - 1) /\ t.y \in 0 .. (tiles_vt - 1)

Lookup(luts, t, val) == IF InGrid(t) THEN luts[t.y][t.x][val] ELSE 0

\* lib.rs:66-75.  The second test compares tiles.0.y with itself, so it is
\* always true and the final else is dead.
BorderWeight(t0, t1, x, y, tile_width, tile_height) ==
    IF t0.x = t1.x
    THEN Frac(x - get_pixel_coordinate_from_tile_coordinate(t0.x, tile_width),
              tile_width)
    ELSE IF t0.y = t0.y
    THEN Frac(y - get_pixel_coordinate_from_tile_coordinate(t0.y, tile_height),
              tile_height)
    ELSE Frac(0, 1)

\* lib.rs:52-53
CornerPixel(x, y, val, c, luts) ==
    [path |-> "corner", x |-> x, y |-> y, val |-> val,
     tiles |-> << c.tile >>, weight |-> Frac(0, 1), blend |-> << >>,
     underflow |-> FALSE, divzero |-> FALSE, oob |-> ~InGrid(c.tile),
     out |-> Lookup(luts, c.tile, val)]

\* lib.rs:62-86
BorderPixel(x, y, val, b, tile_width, tile_height, luts) ==
    LET tile_pixel0 == Lookup(luts, b.t0, val)
        tile_pixel1 == Lookup(luts, b.t1, val)
        weight == BorderWeight(b.t0, b.t1, x, y, tile_width, tile_height)
        handed == IF Positive(weight) THEN OneMinus(weight) ELSE Neg(weight)
    IN  [path |-> "border", x |-> x, y |-> y, val |-> val,
         tiles |-> << b.t0, b.t1 >>, weight |-> weight, blend |-> << handed >>,
         underflow |-> b.underflow, divzero |-> b.divzero,
         oob |-> ~(InGrid(b.t0) /\ InGrid(b.t1)),
         out |-> IF Positive(weight)
                 THEN interpolate(tile_pixel0, tile_pixel1, handed)
                 ELSE interpolate(tile_pixel1, tile_pixel0, handed)]

\* lib.rs:88-103
InteriorPixel(x, y, val, nb, tile_width, tile_height, luts) ==
    LET tiles == nb.tiles
        pixel_values == [i \in 1 .. 4 |-> Lookup(luts, tiles[i], val)]
        x_center == tiles[1].x * tile_width + (tile_width \div 2)
        y_center == tiles[1].y * tile_height + (tile_height \div 2)
        x_weight == Frac(x - x_center, tile_width)
        y_weight == Frac(y - y_center, tile_height)
        intermediate_1 ==
            interpolate(pixel_values[1], pixel_values[2], OneMinus(x_weight))
        intermediate_2 ==
            interpolate(pixel_values[4], pixel_values[3], OneMinus(x_weight))
    IN  [path |-> "interior", x |-> x, y |-> y, val |-> val,
         tiles |-> tiles, weight |-> Frac(0, 1),
         blend |-> << OneMinus(x_weight), OneMinus(x_weight), OneMinus(y_weight) >>,
         underflow |-> nb.underflow \/ x < x_center \/ y < y_center,
         divzero |-> nb.divzero,
         oob |-> \E i \in 1 .. 4 : ~InGrid(tiles[i]),
         out |-> interpolate(intermediate_1, intermediate_2, OneMinus(y_weight))]

\* lib.rs:41-105: one iteration of the pixel loop
PixelStep(x, y, val, W, H, luts) ==
    LET tile_width == W \div tiles_hz
        tile_height == H \div tiles_vt
        c == is_corner_region(x, y, tiles_hz, tiles_vt, W, H)
        b == is_border_region(x, y, tiles_hz, tiles_vt, W, H)
        nb == get_neighbor_tiles(x, y, tiles_hz, tiles_vt, W, H)
    IN  IF c.ok
        THEN CornerPixel(x, y, val, c, luts)
        ELSE IF b.ok
        THEN BorderPixel(x, y, val, b, tile_width, tile_height, luts)
        ELSE InteriorPixel(x, y, val, nb, tile_width, tile_height, luts)

Panics(step) == step.underflow \/ step.divzero \/ step.oob

\* -------------------------------------------------------------- Spec: clahe

NoStep ==
    [path |-> "none", x |-> 0, y |-> 0, val |-> 0, tiles |-> << >>,
     weight |-> Frac(0, 1), blend |-> << >>, underflow |-> FALSE,
     divzero |-> FALSE, oob |-> FALSE, out |-> 0]

Image(W, H, p) ==
    [q \in (0 .. (W - 1)) \X (0 .. (H - 1)) |->
        (p.a * q[1] + p.b * q[2] + p.c) % NumBins]

HistOff ==
    /\ hpc = "off"
    /\ h_in = << >>
    /\ h_limit = 0
    /\ h_clipped = << >>
    /\ h_table = << >>

\* lib.rs:6-13: the state when the tile loop starts
Init ==
    /\ \E d \in Dimensions, k \in 1 .. Len(Patterns) :
          /\ dims = d
          /\ input = Image(d[1], d[2], Patterns[k])
          /\ output = [q \in (0 .. (d[1] - 1)) \X (0 .. (d[2] - 1)) |-> 0]
    /\ lookup_tables =
          [r \in 0 .. (tiles_vt - 1) |->
              [c \in 0 .. (tiles_hz - 1) |-> [v \in Bins |-> 0]]]
    /\ tiles_built = << >>
    /\ pc = "tiles"
    /\ tile_idx = 0
    /\ pix_idx = 0
    /\ last = NoStep
    /\ result = "none"
    /\ HistOff

\* lib.rs:15-39: one iteration of the tile loop (row-major)
BuildTile ==
    /\ pc = "tiles"
    /\ LET W == dims[1]
           H == dims[2]
           row_idx == tile_idx \div tiles_hz
           col_idx == tile_idx % tiles_hz
           rect == TileRect(col_idx, row_idx, W, H)
       IN  IF RectInImage(rect, W, H)
           THEN LET hist == histogram(input, rect)
                    tile_hist == clip_histogram(hist, ClipLimit)
                IN  /\ lookup_tables' =
                          [lookup_tables EXCEPT ![row_idx][col_idx] =
                              perform_gray_level_mapping(tile_hist)]
                    /\ tiles_built' =
                          Append(tiles_built,
                                 [col |-> col_idx, row |-> row_idx,
                                  rect |-> rect, count |-> SumAll(hist)])
                    /\ tile_idx' = tile_idx + 1
                    /\ pc' = IF tile_idx + 1 = tiles_hz * tiles_vt
                             THEN "pixels" ELSE "tiles"
                    /\ result' = result
           ELSE /\ pc' = "panicked"
                /\ result' = "Panic"
                /\ UNCHANGED << lookup_tables, tiles_built, tile_idx >>
    /\ UNCHANGED << dims, input, output, pix_idx, last >>
    /\ UNCHANGED histVars

\* lib.rs:41-105: one iteration of the pixel loop (enumerate_pixels is
\* row-major)
ProcessPixel ==
    /\ pc = "pixels"
    /\ pix_idx < dims[1] * dims[2]
    /\ LET W == dims[1]
           H == dims[2]
           x == pix_idx % W
           y == pix_idx \div W
           step == PixelStep(x, y, input[<< x, y >>], W, H, lookup_tables)
       IN  /\ last' = step
           /\ IF Panics(step)
              THEN /\ pc' = "panicked"
                   /\ result' = "Panic"
                   /\ UNCHANGED << output, pix_idx >>
              ELSE /\ output' = [output EXCEPT ![<< x, y >>] = step.out]
                   /\ pix_idx' = pix_idx + 1
                   /\ UNCHANGED << pc, result >>
    /\ UNCHANGED << dims, input, lookup_tables, tiles_built, tile_idx >>
    /\ UNCHANGED histVars

\* lib.rs:107: Ok(output)
Return ==
    /\ pc = "pixels"
    /\ pix_idx = dims[1] * dims[2]
    /\ pc' = "done"
    /\ result' = "Ok"
    /\ UNCHANGED << dims, input, output, lookup_tables, tiles_built, tile_idx,
                    pix_idx, last >>
    /\ UNCHANGED histVars

Next == BuildTile \/ ProcessPixel \/ Return

Spec == Init /\ [][Next]_vars

\* ------------------------------------------- SpecHist: clip, then map

\* The counts a histogram's two spikes take: below, at and just above the
\* limit, and far enough above it for the excess to reach NumBins.
Counts ==
    { 0, 1, ClipLimit, ClipLimit + 1 }
    \cup { ClipLimit + k * (NumBins \div 2) + j : k \in 1 .. MaxK, j \in { 0, 1 } }

\* The bins the two spikes sit in.
SpikeBins == { << 0, 255 >>, << 0, 1 >>, << 100, 101 >>, << 17, 200 >> }

MainOff ==
    /\ dims = << 0, 0 >>
    /\ input = << >>
    /\ output = << >>
    /\ lookup_tables = << >>
    /\ tiles_built = << >>
    /\ pc = "off"
    /\ tile_idx = 0
    /\ pix_idx = 0
    /\ last = NoStep
    /\ result = "none"

\* A tile's histogram as clahe hands it to clip_histogram (lib.rs:36), with
\* the only limit clahe ever passes.
InitHist ==
    /\ MainOff
    /\ hpc = "start"
    /\ \E sb \in SpikeBins, c1 \in Counts, c2 \in Counts, base \in 0 .. MaxBase :
          h_in = [i \in Bins |->
                    IF i = sb[1] THEN c1 ELSE IF i = sb[2] THEN c2 ELSE base]
    /\ h_limit = ClipLimit
    /\ h_clipped = << >>
    /\ h_table = << >>

\* lib.rs:36: clip_histogram(histogram(..), 40)
Clip ==
    /\ hpc = "start"
    /\ h_clipped' = clip_histogram(h_in, h_limit)
    /\ hpc' = "clipped"
    /\ UNCHANGED << h_in, h_limit, h_table >>
    /\ UNCHANGED mainVars

\* lib.rs:37: perform_gray_level_mapping(&tile_hist, table)
Map ==
    /\ hpc = "clipped"
    /\ h_table' = perform_gray_level_mapping(h_clipped)
    /\ hpc' = "mapped"
    /\ UNCHANGED << h_in, h_limit, h_clipped >>
    /\ UNCHANGED mainVars

NextHist == Clip \/ Map

SpecHist == InitHist /\ [][NextHist]_vars

\* -------------------------------------------------------------------- claims

ImgW == dims[1]
ImgH == dims[2]
TileW == ImgW \div tiles_hz
TileH == ImgH \div tiles_vt

\* clahe is running (or has run) on an image whose tiles are not empty.
Running == pc # "off"
Valid == Running /\ ImgW >= tiles_hz /\ ImgH >= tiles_vt
Stepped == Running /\ last.path # "none"

\* The total excess over the limit: the sum over the bins of max(count - limit, 0).
Excess(h, limit) ==
    SumBins([i \in Bins |-> IF h[i] > limit THEN h[i] - limit ELSE 0],
            0, NumBins - 1)

Clipped == hpc \in { "clipped", "mapped" }

\* C1: an image narrower than tiles_hz or shorter than tiles_vt (tile_width
\* or tile_height 0) is rejected with an error: clahe never returns Ok for it.
C1_SmallImageRejected ==
    (Running /\ (TileW = 0 \/ TileH = 0)) => result # "Ok"

\* C2 (as stated): no bin of the histogram clip_histogram returns exceeds the
\* limit.
C2_NoBinExceedsLimit ==
    Clipped => \A i \in Bins : h_clipped[i] <= h_limit

\* C2 (amended): no bin of the histogram clip_histogram returns exceeds the
\* limit plus the redistributed share floor(excess / 256); the limit itself
\* is respected whenever the total excess is below 256.
C2_NoBinExceedsLimitPlusShare ==
    Clipped =>
        \A e \in { Excess(h_in, h_limit) } :
            /\ \A i \in Bins : h_clipped[i] <= h_limit + (e \div NumBins)
            /\ (e < NumBins => \A i \in Bins : h_clipped[i] <= h_limit)

\* C2 witness: a clipped histogram whose excess reached 256, so that a
\* clipped bin was raised above the limit.
C2_Witness ==
    /\ hpc = "clipped"
    /\ Excess(h_in, h_limit) >= NumBins
    /\ \E i \in Bins : h_in[i] > h_limit /\ h_clipped[i] > h_limit

\* C3: for every pixel of an image at least 8 x 8, the pixel pass takes one
\* of the corner / border / interior paths and completes it: no unsigned
\* subtraction underflows, nothing (integer or weight) is divided by zero,
\* every governing tile coordinate lies in [0,7] x [0,7], and the loop moves
\* on to the next pixel.
C3_PixelPathCompletes ==
    (Valid /\ last.path # "none") =>
        /\ pc # "panicked"
        /\ ~last.underflow
        /\ ~last.divzero
        /\ ~last.oob
        /\ \/ last.path = "corner" /\ Len(last.tiles) = 1
           \/ last.path = "border" /\ Len(last.tiles) = 2
           \/ last.path = "interior" /\ Len(last.tiles) = 4
        /\ \A i \in 1 .. Len(last.tiles) :
              /\ last.tiles[i].x \in 0 .. 7
              /\ last.tiles[i].y \in 0 .. 7
        /\ last.weight.d > 0
        /\ \A i \in 1 .. Len(last.blend) : last.blend[i].d > 0
        /\ pix_idx = last.y * ImgW + last.x + 1

\* C3 witness: a pixel right of the last tile centre of an image whose width
\* is not a multiple of 8 went through the four-tile path, its lower tile
\* clamped to column 6.
C3_Witness ==
    /\ Valid
    /\ ImgW % tiles_hz # 0
    /\ last.path = "interior"
    /\ last.x > get_pixel_coordinate_from_tile_coordinate(tiles_hz - 1, TileW)
    /\ last.tiles[1].x = tiles_hz - 2

\* C4: at the pixel coincident with the centre of tile (c, r) the output is
\* that tile's own lookup table applied to the pixel's input intensity.
C4_TileCentreExact ==
    (Valid /\ last.path # "none" /\ pc # "panicked") =>
        \A c \in 0 .. (tiles_hz - 1), r \in 0 .. (tiles_vt - 1) :
            (/\ last.x = get_pixel_coordinate_from_tile_coordinate(c, TileW)
             /\ last.y = get_pixel_coordinate_from_tile_coordinate(r, TileH))
            => output[<< last.x, last.y >>] = lookup_tables[r][c][last.val]

\* C5: the bins clip_histogram returns sum to no more than the input bins,
\* and the deficit is exactly (total excess over the limit) mod 256.
C5_MassDeficit ==
    Clipped =>
        /\ SumAll(h_clipped) <= SumAll(h_in)
        /\ SumAll(h_in) - SumAll(h_clipped) = Excess(h_in, h_limit) % NumBins

\* C5 witness: a histogram was clipped whose excess is above 256 and not a
\* multiple of it, so that a share was redistributed and a remainder dropped.
C5_Witness ==
    /\ hpc = "clipped"
    /\ Excess(h_in, h_limit) > NumBins
    /\ Excess(h_in, h_limit) % NumBins # 0

\* C6: the lookup table built from the clipped histogram is non-decreasing,
\* and each entry i is floor(cumulative_count(0..=i) * 255 / N), N being the
\* sum of the clipped counts (where N > 0: the quotient has no value at 0).
C6_LutMonotone ==
    (hpc = "mapped") =>
        \* n: the sum of the clipped counts; block, before: the counts of
        \* each block of 16 bins and of the blocks before it, from which the
        \* cumulative count of bins 0 .. i is summed
        \A n \in { SumAll(h_clipped) } :
        \A block \in { [b \in 0 .. 15 |->
                          SumBins(h_clipped, 16 * b, 16 * b + 15)] } :
        \A before \in { [b \in 0 .. 15 |-> SumBins(block, 0, b - 1)] } :
            /\ \A i \in 0 .. (NumBins - 2) : h_table[i] <= h_table[i + 1]
            /\ n > 0 =>
                 \A i \in Bins :
                    h_table[i] =
                       ((before[i \div 16]
                           + SumBins(h_clipped, 16 * (i \div 16), i)) * 255) \div n

\* C6 witness: a table was built that rises through an intermediate value.
C6_Witness ==
    /\ hpc = "mapped"
    /\ SumAll(h_clipped) > 0
    /\ \E i \in Bins : h_table[i] > 0 /\ h_table[i] < h_table[NumBins - 1]

\* C7: the 64 tile rectangles of an image at least 8 x 8 cover it exactly:
\* no tile extends past the image, every pixel lies in exactly one tile, each
\* tile's unclipped histogram sums to the tile's pixel count, and the counts
\* of all tiles sum to W * H.
C7_TilesCoverImage ==
    (Valid /\ pix_idx = 0 /\ Len(tiles_built) > 0) =>
        LET n == Len(tiles_built)
            t == tiles_built[n]
        IN  /\ RectInImage(t.rect, ImgW, ImgH)
            /\ t.rect = [x |-> TileW * t.col, y |-> TileH * t.row,
                         w |-> t.rect.w, h |-> t.rect.h]
            /\ t.count = t.rect.w * t.rect.h
            /\ (n = tiles_hz * tiles_vt) =>
                 /\ \A q \in DOMAIN input :
                       Cardinality({ i \in 1 .. n :
                                       q \in RectPixels(tiles_built[i].rect) }) = 1
                 /\ SumBins([i \in 0 .. (n - 1) |-> tiles_built[i + 1].count],
                            0, n - 1) = ImgW * ImgH

\* C7 witness: all 64 tiles of an image whose width and height are both not
\* multiples of 8 have been built.
C7_Witness ==
    /\ Valid
    /\ ImgW % tiles_hz # 0
    /\ ImgH % tiles_vt # 0
    /\ Len(tiles_built) = tiles_hz * tiles_vt
    /\ pc = "pixels"

\* C8: a pixel is classified Corner exactly when it is in a near or far
\* half-tile zone on both axes; its governing tile is then the matching grid
\* corner and its output that single tile's lookup table applied to the
\* input intensity; pixel (0,0) is Corner with tile (0,0).
C8_CornerExact ==
    (Stepped /\ pc # "panicked") =>
        LET nearX == last.x <= TileW \div 2
            farX == last.x > tiles_hz * TileW - TileW \div 2
            nearY == last.y <= TileH \div 2
            farY == last.y > tiles_vt * TileH - TileH \div 2
            corner == TileCoordinate(IF nearX THEN 0 ELSE tiles_hz - 1,
                                     IF nearY THEN 0 ELSE tiles_vt - 1)
        IN  /\ (last.path = "corner") <=> ((nearX \/ farX) /\ (nearY \/ farY))
            /\ (last.path = "corner") =>
                  /\ last.tiles = << corner >>
                  /\ output[<< last.x, last.y >>] =
                        lookup_tables[corner.y][corner.x][input[<< last.x, last.y >>]]
            /\ (last.x = 0 /\ last.y = 0) =>
                  /\ last.path = "corner"
                  /\ output[<< 0, 0 >>] = lookup_tables[0][0][input[<< 0, 0 >>]]

\* C8 witness: a pixel of the far-x, near-y zone of an image whose width is
\* not a multiple of 8 took the corner path with tile (7,0) and a non-zero
\* output.
C8_Witness ==
    /\ Valid
    /\ ImgW % tiles_hz # 0
    /\ last.path = "corner"
    /\ last.tiles = << TileCoordinate(tiles_hz - 1, 0) >>
    /\ output[<< last.x, last.y >>] > 0

\* C9: the blend weight of a border pixel is its offset from the first
\* tile's centre along the axis on which its two tiles are adjacent: the x
\* offset over tile_width when the tiles differ in column, the y offset over
\* tile_height when they differ in row.
C9_BorderWeightAxis ==
    (Valid /\ last.path = "border") =>
        LET t0 == last.tiles[1]
            t1 == last.tiles[2]
            xoff == last.x - get_pixel_coordinate_from_tile_coordinate(t0.x, TileW)
            yoff == last.y - get_pixel_coordinate_from_tile_coordinate(t0.y, TileH)
        IN  /\ (t0.x # t1.x) => last.weight.n * TileW = xoff * last.weight.d
            /\ (t0.y # t1.y) => last.weight.n * TileH = yoff * last.weight.d

\* C10: every weight handed to a linear blend for a border or interior pixel
\* of an image at least 8 x 8 lies in [0,1].
C10_WeightsInUnitInterval ==
    (Valid /\ last.path \in { "border", "interior" }) =>
        \A i \in 1 .. Len(last.blend) :
            /\ 0 <= last.blend[i].n
            /\ last.blend[i].n <= last.blend[i].d

====
